---- MODULE Spec2Model ----
(***************************************************************************)
(* Model of solana-wallet-bot: the response handling of solana_utils.py    *)
(* (get_balance, request_airdrop, get_sol_price, get_transaction,          *)
(* generate_wallet) and the Telegram command handlers of bot.py.           *)
(*                                                                         *)
(* Python values are tagged records.  Every value carries a tag t; the     *)
(* other fields depend on the tag, so that values of different Python      *)
(* types are always distinguishable:                                       *)
(*   none                      None                                        *)
(*   int   (neg, limbs)        an int, sign and magnitude, the magnitude   *)
(*                             as three base-10^9 limbs <<hi, mid, lo>>    *)
(*                             (Python ints are unbounded; 2^64-1 does not *)
(*                             fit one 32-bit word)                        *)
(*   float (fneg, num, scale)  the exact quotient num / 10^scale           *)
(*   str   (s)                 a str                                       *)
(*   list  (items)             a list                                      *)
(*   dict  (d)                 a dict with str keys                        *)
(*   obj   (attrs)             an attribute-bearing object (solders        *)
(*                             response objects, Signature objects)        *)
(*   bool  (b)                 True / False                                *)
(*   text  (chars)             a str held as its sequence of characters    *)
(*   exc   (exc)               a raised exception, as the outcome of an    *)
(*                             expression or of a call                     *)
(***************************************************************************)
EXTENDS Integers, Sequences, FiniteSets, TLC

VARIABLES pc, cmd, args, replies, utilCalls, rpcLog, resp, sigx, conf, ret, escaped

vars == <<pc, cmd, args, replies, utilCalls, rpcLog, resp, sigx, conf, ret, escaped>>

(***************************************************************************)
(* Python values                                                           *)
(***************************************************************************)
None == [t |-> "none"]

PyInt(isNeg, l) == [t |-> "int", neg |-> isNeg, limbs |-> l]

I(n) == PyInt(FALSE, <<0, 0, n>>)

Str(x) == [t |-> "str", s |-> x]

List(xs) == [t |-> "list", items |-> xs]

Dict(f) == [t |-> "dict", d |-> f]

Obj(f) == [t |-> "obj", attrs |-> f]

Bool(x) == [t |-> "bool", b |-> x]

\* A str held as the sequence of its characters (the encoded secrets and the
\* address of generate_wallet, whose characters matter).
Text(cs) == [t |-> "text", chars |-> cs]

Raise(e) == [t |-> "exc", exc |-> e]

Empty == [k \in {} |-> None]

IsRaise(v) == v.t = "exc"

IsNone(v) == v.t = "none"

IsZeroLimbs(l) == \A i \in DOMAIN l : l[i] = 0

\* bool(v): the truth value Python gives v in `if v`, `not v`, `a or b`.
Truthy(v) ==
    CASE v.t = "none"  -> FALSE
      [] v.t = "int"   -> ~IsZeroLimbs(v.limbs)
      [] v.t = "float" -> ~IsZeroLimbs(v.num)
      [] v.t = "str"   -> v.s # ""
      [] v.t = "list"  -> Len(v.items) > 0
      [] v.t = "dict"  -> DOMAIN v.d # {}
      [] v.t = "bool"  -> v.b
      [] v.t = "text"  -> Len(v.chars) > 0
      [] OTHER         -> TRUE

\* a or b
Or(a, b) == IF Truthy(a) THEN a ELSE b

\* hasattr(v, name): only attribute-bearing objects carry the probed names;
\* dict, list, str, int and None have no attribute value, slot, meta, ...
HasAttr(v, name) == v.t = "obj" /\ name \in DOMAIN v.attrs

\* getattr(v, name, None)
GetAttr(v, name) == IF HasAttr(v, name) THEN v.attrs[name] ELSE None

\* v.name: AttributeError when the attribute is missing
Attr(v, name) == IF HasAttr(v, name) THEN v.attrs[name] ELSE Raise("AttributeError")

\* hasattr(v, "__getitem__")
HasGetItem(v) == v.t \in {"dict", "list", "str"}

\* v[key] for a str key: KeyError on a dict without the key, TypeError on
\* every other type (list and str indices must be integers, the rest is not
\* subscriptable).
GetItem(v, key) ==
    IF v.t = "dict"
    THEN IF key \in DOMAIN v.d THEN v.d[key] ELSE Raise("KeyError")
    ELSE Raise("TypeError")

\* v.get(key) on a dict
DictGet(v, key) == IF key \in DOMAIN v.d THEN v.d[key] ELSE None

\* lamports / 1_000_000_000: true division, defined on numbers only.  The
\* quotient is kept exactly, as numerator and decimal scale.
DivBillion(v) ==
    CASE v.t = "int"   -> [t |-> "float", fneg |-> v.neg, num |-> v.limbs, scale |-> 9]
      [] v.t = "float" -> [t |-> "float", fneg |-> v.fneg, num |-> v.num, scale |-> v.scale + 9]
      [] v.t = "bool"  -> [t |-> "float", fneg |-> FALSE,
                           num |-> <<0, 0, IF v.b THEN 1 ELSE 0>>, scale |-> 9]
      [] OTHER         -> Raise("TypeError")

(***************************************************************************)
(* solana_utils._to_pubkey                                                 *)
(***************************************************************************)
\* Addresses are abstracted to what _to_pubkey distinguishes: a Pubkey
\* object, a str that Pubkey.from_string accepts, a str it rejects, and
\* anything else.
AddrKinds == {"pubkey", "str_valid", "str_invalid", "other"}

_to_pubkey(address) ==
    CASE address = "pubkey"      -> Str("pk")
      [] address = "str_valid"   -> Str("pk")
      [] address = "str_invalid" -> Raise("ValueError")
      [] OTHER                   -> Raise("TypeError")

(***************************************************************************)
(* solana_utils.get_balance                                                *)
(***************************************************************************)
\* Lines 29-38: the lamport extraction.
ExtractLamports(r) ==
    IF HasAttr(r, "value") THEN r.attrs["value"]
    ELSE IF HasGetItem(r)
         THEN LET a == GetItem(r, "result")
                  b == IF IsRaise(a) THEN a ELSE GetItem(a, "value")
              IN  IF IsRaise(b) THEN None ELSE b
         ELSE None

\* get_balance with `if not lamports` for `if lamports is None`: a balance
\* of zero taken for a missing one.
GetBalanceBody_ZeroIsMissing(address, out) ==
    LET pk == _to_pubkey(address) IN
    IF IsRaise(pk) THEN pk
    ELSE IF IsRaise(out) THEN out
    ELSE LET r == ExtractLamports(out)
         IN  IF ~Truthy(r) THEN Raise("ValueError") ELSE DivBillion(r)

\* Lines 24-44: the body of the try block.  out is what client.get_balance
\* did: the response it returned, or the exception it raised.
GetBalanceBody(address, out) ==
    LET pk == _to_pubkey(address) IN
    IF IsRaise(pk) THEN pk
    ELSE IF IsRaise(out) THEN out
    ELSE LET lamports == ExtractLamports(out) IN
         IF IsNone(lamports) THEN Raise("ValueError")
         ELSE DivBillion(lamports)

\* The try block without its except clause.
CatchNone_Reraise(r) == r

\* Lines 23, 45-49: every exception becomes None.
CatchNone(r) == IF IsRaise(r) THEN None ELSE r

get_balance(address, out) == CatchNone(GetBalanceBody(address, out))

(***************************************************************************)
(* solana_utils.request_airdrop                                            *)
(***************************************************************************)
\* Lines 66-70: the signature extraction.
ExtractSignature(r) ==
    IF HasAttr(r, "value") THEN r.attrs["value"]
    ELSE IF r.t = "dict" THEN Or(DictGet(r, "result"), DictGet(r, "signature"))
    ELSE None

\* Line 80: the record returned once the request went through.
AirdropOk(signature) ==
    Dict([success |-> Bool(TRUE), signature |-> signature,
          message |-> Str("Airdrop requested.")])

\* Lines 81-85: the record returned when the try block raised.
AirdropFailed(e) ==
    Dict([success |-> Bool(FALSE), signature |-> None, message |-> Str(e.exc)])

\* confirm_transaction outside its own try: its exception reaches the
\* outer except clause.
TryConfirm_Propagate(r) == r

\* Lines 74-78: an exception of confirm_transaction is passed over.
TryConfirm(r) == IF IsRaise(r) THEN None ELSE r

\* request_airdrop taking a missing signature for a failure.
AirdropReturn_MissingIsError(signature, r) ==
    IF IsRaise(r) THEN AirdropFailed(r)
    ELSE IF ~Truthy(signature)
    THEN Dict([success |-> Bool(FALSE), signature |-> None, message |-> Str("no signature")])
    ELSE AirdropOk(signature)

\* Lines 80-85: what request_airdrop returns once the signature is
\* extracted, r being what the try block did after the extraction.
AirdropReturn(signature, r) ==
    IF IsRaise(r) THEN AirdropFailed(r) ELSE AirdropOk(signature)

\* Lines 61-70: address conversion, the request and the extraction.  The
\* amount is the handler's 1.0 SOL, whose conversion to lamports cannot fail.
\* The result is the extracted signature, or the exception raised.
AirdropRequestBody(address, out) ==
    LET pk == _to_pubkey(address) IN
    IF IsRaise(pk) THEN pk
    ELSE IF IsRaise(out) THEN out
    ELSE ExtractSignature(out)

(***************************************************************************)
(* solana_utils.get_sol_price                                              *)
(***************************************************************************)
\* float(x): numbers convert, a str converts when it spells a number, the
\* rest raises.  "150" stands for the numeric strings.
ToFloat(v) ==
    CASE v.t = "int"   -> [t |-> "float", fneg |-> v.neg, num |-> v.limbs, scale |-> 0]
      [] v.t = "float" -> v
      [] v.t = "bool"  -> [t |-> "float", fneg |-> FALSE,
                           num |-> <<0, 0, IF v.b THEN 1 ELSE 0>>, scale |-> 0]
      [] v.t = "str"   -> IF v.s = "150"
                          THEN [t |-> "float", fneg |-> FALSE, num |-> <<0, 0, 150>>, scale |-> 0]
                          ELSE Raise("ValueError")
      [] OTHER         -> Raise("TypeError")

\* x.get(key, default): only a dict has .get
GetOr(v, key, default) ==
    IF v.t # "dict" THEN Raise("AttributeError")
    ELSE IF key \in DOMAIN v.d THEN v.d[key] ELSE default

\* Lines 94-106.  out is what requests.get, raise_for_status and json did:
\* the decoded body, or the exception raised.
GetSolPriceBody(vs_currency, out) ==
    IF IsRaise(out) THEN out
    ELSE LET sol == GetOr(out, "solana", Dict(Empty)) IN
         IF IsRaise(sol) THEN sol
         ELSE LET price == GetOr(sol, vs_currency, None) IN
              IF IsRaise(price) THEN price
              ELSE IF IsNone(price) THEN Raise("ValueError")
              ELSE ToFloat(price)

get_sol_price(vs_currency, out) == CatchNone(GetSolPriceBody(vs_currency, out))

(***************************************************************************)
(* solana_utils.get_transaction                                            *)
(***************************************************************************)
\* The envelope looked for under "result" and then under "value" inside it.
ResolveValue_Nested(r) ==
    IF HasAttr(r, "value") THEN r.attrs["value"]
    ELSE IF r.t = "dict"
         THEN LET a == DictGet(r, "result") IN
              IF a.t = "dict" THEN DictGet(a, "value") ELSE None
    ELSE None

\* Lines 123-127: the envelope.
ResolveValue(r) ==
    IF HasAttr(r, "value") THEN r.attrs["value"]
    ELSE IF r.t = "dict" THEN Or(DictGet(r, "result"), DictGet(r, "value"))
    ELSE None

\* Lines 133-137: value.get(k) if isinstance(value, dict) else getattr(value, k, None)
Field(value, k) == IF value.t = "dict" THEN DictGet(value, k) ELSE GetAttr(value, k)

RECURSIVE KeySeq(_)
KeySeq(ks) ==
    IF ks = {} THEN <<>>
    ELSE LET k == CHOOSE x \in ks : TRUE IN <<Str(k)>> \o KeySeq(ks \ {k})

\* list(x): a list copies, a str gives its characters (abstracted to the
\* whole str as the one item), a dict gives its keys, everything else is
\* not iterable.
ToList(v) ==
    CASE v.t = "list" -> v
      [] v.t = "str"  -> IF v.s = "" THEN List(<<>>) ELSE List(<<v>>)
      [] v.t = "dict" -> List(KeySeq(DOMAIN v.d))
      [] OTHER        -> Raise("TypeError")

\* sigs starting as an empty list instead of None.
ExtractSigs_EmptyDefault(transaction) ==
    IF IsNone(transaction) THEN List(<<>>)
    ELSE IF transaction.t = "dict"
         THEN Or(DictGet(transaction, "signatures"), List(<<>>))
         ELSE LET a == Attr(transaction, "signatures")
                  l == IF IsRaise(a) THEN a ELSE ToList(a)
              IN  IF IsRaise(l) THEN None ELSE l

\* Lines 140-148
ExtractSigs(transaction) ==
    IF IsNone(transaction) THEN None
    ELSE IF transaction.t = "dict"
         THEN Or(DictGet(transaction, "signatures"), List(<<>>))
         ELSE LET a == Attr(transaction, "signatures")
                  l == IF IsRaise(a) THEN a ELSE ToList(a)
              IN  IF IsRaise(l) THEN None ELSE l

\* Lines 151-165: err, fee, pre_bal, post_bal
MetaSummary(meta) ==
    IF IsNone(meta)
    THEN [err |-> None, fee |-> None, pre_bal |-> None, post_bal |-> None]
    ELSE IF meta.t = "dict"
         THEN [err      |-> DictGet(meta, "err"),
               fee      |-> DictGet(meta, "fee"),
               pre_bal  |-> DictGet(meta, "preBalances"),
               post_bal |-> DictGet(meta, "postBalances")]
         ELSE [err      |-> GetAttr(meta, "err"),
               fee      |-> GetAttr(meta, "fee"),
               pre_bal  |-> Or(GetAttr(meta, "pre_balances"), GetAttr(meta, "preBalances")),
               post_bal |-> Or(GetAttr(meta, "post_balances"), GetAttr(meta, "postBalances"))]

\* Lines 120-174: the body of the try block.
GetTransactionBody(out) ==
    IF IsRaise(out) THEN out
    ELSE LET value == ResolveValue(out) IN
         IF ~Truthy(value) THEN None
         ELSE LET m == MetaSummary(Field(value, "meta")) IN
              Dict([slot         |-> Field(value, "slot"),
                    signatures   |-> ExtractSigs(Field(value, "transaction")),
                    err          |-> m.err,
                    fee          |-> m.fee,
                    preBalances  |-> m.pre_bal,
                    postBalances |-> m.post_bal])

get_transaction(out) == CatchNone(GetTransactionBody(out))

(***************************************************************************)
(* solana_utils.generate_wallet                                            *)
(***************************************************************************)
B64Alphabet ==
    << "A","B","C","D","E","F","G","H","I","J","K","L","M","N","O","P",
       "Q","R","S","T","U","V","W","X","Y","Z","a","b","c","d","e","f",
       "g","h","i","j","k","l","m","n","o","p","q","r","s","t","u","v",
       "w","x","y","z","0","1","2","3","4","5","6","7","8","9","+","/" >>

HexAlphabet ==
    << "0","1","2","3","4","5","6","7","8","9","a","b","c","d","e","f" >>

B58Alphabet ==
    << "1","2","3","4","5","6","7","8","9","A","B","C","D","E","F","G",
       "H","J","K","L","M","N","P","Q","R","S","T","U","V","W","X","Y",
       "Z","a","b","c","d","e","f","g","h","i","j","k","m","n","o","p",
       "q","r","s","t","u","v","w","x","y","z" >>

\* base64.b64encode(kb).decode(): three bytes give four characters, a last
\* group of one or two bytes is padded with "=".
RECURSIVE B64Encode(_)
B64Encode(bs) ==
    IF Len(bs) = 0 THEN <<>>
    ELSE IF Len(bs) = 1
    THEN << B64Alphabet[(bs[1] \div 4) + 1],
            B64Alphabet[((bs[1] % 4) * 16) + 1], "=", "=" >>
    ELSE IF Len(bs) = 2
    THEN << B64Alphabet[(bs[1] \div 4) + 1],
            B64Alphabet[((bs[1] % 4) * 16) + (bs[2] \div 16) + 1],
            B64Alphabet[((bs[2] % 16) * 4) + 1], "=" >>
    ELSE << B64Alphabet[(bs[1] \div 4) + 1],
            B64Alphabet[((bs[1] % 4) * 16) + (bs[2] \div 16) + 1],
            B64Alphabet[((bs[2] % 16) * 4) + (bs[3] \div 64) + 1],
            B64Alphabet[(bs[3] % 64) + 1] >>
         \o B64Encode(SubSeq(bs, 4, Len(bs)))

\* kb.hex(): two lower-case digits a byte, high nibble first.
RECURSIVE HexEncode(_)
HexEncode(bs) ==
    IF Len(bs) = 0 THEN <<>>
    ELSE << HexAlphabet[(bs[1] \div 16) + 1], HexAlphabet[(bs[1] % 16) + 1] >>
         \o HexEncode(Tail(bs))

\* One long division of a big-endian base-256 number by 58: the quotient
\* (same length) and the remainder.
RECURSIVE DivMod58(_, _)
DivMod58(bs, carry) ==
    IF Len(bs) = 0 THEN [q |-> <<>>, r |-> carry]
    ELSE LET cur  == (carry * 256) + bs[1]
             rest == DivMod58(Tail(bs), cur % 58)
         IN  [q |-> <<cur \div 58>> \o rest.q, r |-> rest.r]

RECURSIVE B58Digits(_)
B58Digits(bs) ==
    IF \A i \in DOMAIN bs : bs[i] = 0 THEN <<>>
    ELSE LET dm == DivMod58(bs, 0) IN B58Digits(dm.q) \o <<B58Alphabet[dm.r + 1]>>

RECURSIVE LeadingZeros(_)
LeadingZeros(bs) ==
    IF Len(bs) = 0 \/ bs[1] # 0 THEN <<>>
    ELSE <<"1">> \o LeadingZeros(Tail(bs))

\* str(kp.pubkey()): base58 of the 32 public-key bytes, a "1" for every
\* leading zero byte.
B58Encode(bs) == LeadingZeros(bs) \o B58Digits(bs)

KEYPAIR_LEN == 64

SECRET_LEN == 32

\* kp.pubkey(): the public key is the trailing 32 bytes of the keypair.
PubkeyBytes(kb) == SubSeq(kb, SECRET_LEN + 1, KEYPAIR_LEN)

\* The hex secret made of the 32 secret bytes only.
HexSource_SecretOnly(kb) == SubSeq(kb, 1, SECRET_LEN)

\* Line 198: the bytes the hex secret is made of.
HexSource(kb) == kb

\* Line 197: the bytes the base64 secret is made of.
B64Source(kb) == kb

\* Lines 191-199.  out is what Keypair() gave: the keypair bytes, or the
\* exception raised by the import or the construction.
GenerateWalletBody(out) ==
    IF IsRaise(out) THEN out
    ELSE LET kb == out.bytes IN
         Dict([address    |-> Text(B58Encode(PubkeyBytes(kb))),
               secret_b64 |-> Text(B64Encode(B64Source(kb))),
               secret_hex |-> Text(HexEncode(HexSource(kb)))])

generate_wallet(out) == CatchNone(GenerateWalletBody(out))

(***************************************************************************)
(* bot.py: message building                                                *)
(***************************************************************************)
Reply(kind, payload) == [t |-> "reply", kind |-> kind, payload |-> payload]

\* ', '.join(xs) takes str items only.
JoinOk(sigs) ==
    sigs.t # "list" \/ \A i \in DOMAIN sigs.items : sigs.items[i].t \in {"str", "text"}

\* bot.py lines 74-92: the lines of the /tx summary, or the exception
\* raised while building them.
TxLines(info) ==
    LET slot == DictGet(info, "slot")
        err  == DictGet(info, "err")
        fee  == DictGet(info, "fee")
        sigs == DictGet(info, "signatures")
        pre  == DictGet(info, "preBalances")
        post == DictGet(info, "postBalances")
    IN  IF Truthy(sigs) /\ ~JoinOk(sigs) THEN Raise("TypeError")
        ELSE List( <<Str("header")>>
                \o (IF ~IsNone(slot) THEN <<Str("slot")>> ELSE <<>>)
                \o (IF ~IsNone(fee) THEN <<Str("fee")>> ELSE <<>>)
                \o (IF Truthy(err) THEN <<Str("err")>> ELSE <<>>)
                \o (IF Truthy(sigs) THEN <<Str("signatures")>> ELSE <<>>)
                \o (IF ~IsNone(pre) /\ ~IsNone(post)
                    THEN <<Str("preBalances"), Str("postBalances")>> ELSE <<>>) )

\* bot.py lines 44-49: the reply of /airdrop
AirdropMessage(result) ==
    IF Truthy(DictGet(result, "success"))
    THEN LET sig == DictGet(result, "signature") IN
         Reply("result", IF Truthy(sig) THEN sig ELSE None)
    ELSE Reply("failure", DictGet(result, "message"))

(***************************************************************************)
(* What the upstream services may answer                                   *)
(***************************************************************************)
\* Longest balance list of a sampled transaction meta.
MaxBalances == 1

\* Largest byte stride of a sampled keypair buffer.
MaxStride == 2

Zero == I(0)

One == I(1)

Billion == PyInt(FALSE, <<0, 1, 0>>)

TwoAndAHalfBillion == PyInt(FALSE, <<0, 2, 500000000>>)

U64Max == PyInt(FALSE, <<18, 446744073, 709551615>>)

MinusOne == PyInt(TRUE, <<0, 0, 1>>)

\* A solders Signature: an object that is no str.
SigObject == Obj([sigbytes |-> Str("abc123")])

Exceptions == {Raise("RPCException"), Raise("ConnectionError")}

LamportValues ==
    {Zero, One, Billion, TwoAndAHalfBillion, U64Max, MinusOne,
     None, Str("1"), Bool(TRUE), List(<<>>), Dict(Empty)}

BalanceResponses ==
       {Obj([value |-> v]) : v \in LamportValues}
    \cup {Dict([result |-> Dict([value |-> v])]) : v \in LamportValues}
    \cup {Dict([value |-> v]) : v \in LamportValues}
    \cup {Dict(Empty), Dict([result |-> Dict(Empty)]), Dict([result |-> None]),
          Dict([result |-> List(<<>>)]), Dict([result |-> One]),
          None, List(<<>>), Str("error"), Obj(Empty), Zero}

SigValues == {Str("5sig"), Str(""), None, SigObject, Zero, List(<<>>)}

AirdropResponses ==
       {Obj([value |-> v]) : v \in SigValues}
    \cup {Dict([result |-> v]) : v \in SigValues}
    \cup {Dict([signature |-> v]) : v \in SigValues}
    \cup {Dict([result |-> v, signature |-> w]) : v \in {None, Str("")}, w \in SigValues}
    \cup {Dict([value |-> Str("5sig")]), Dict(Empty), None, Str("5sig"), List(<<>>), Obj(Empty)}

PriceValues == {I(150), Str("150"), Str("n/a"), None, Bool(TRUE), List(<<>>), Dict(Empty)}

PriceBodies ==
       {Dict([solana |-> Dict([usd |-> v])]) : v \in PriceValues}
    \cup {Dict([solana |-> Dict([eur |-> I(140)])]), Dict([solana |-> None]),
          Dict([solana |-> I(150)]), Dict(Empty), Dict([status |-> Str("error")]),
          List(<<>>), None, Str("150")}

RECURSIVE BalListOf(_)
BalListOf(n) == IF n = 0 THEN <<>> ELSE BalListOf(n - 1) \o <<I(n)>>

BalLists == {List(BalListOf(n)) : n \in 0..MaxBalances}

\* The optional fields of a meta, an envelope: a function per choice, merged
\* with @@ (the key sets are disjoint).
ErrOpts == {Empty, [err |-> None], [err |-> Dict([InstructionError |-> Zero])]}

FeeOpts == {Empty, [fee |-> I(5000)]}

BalOpts ==
       {Empty}
    \cup {[preBalances |-> a, postBalances |-> b] : a \in BalLists, b \in BalLists}
    \cup {[pre_balances |-> a, post_balances |-> b] : a \in BalLists, b \in BalLists}
    \cup {[pre_balances |-> a, preBalances |-> b] : a \in BalLists, b \in BalLists}

MetaMaps == {e @@ f @@ b : e \in ErrOpts, f \in FeeOpts, b \in BalOpts}

MetaOpts ==
       {Empty, [meta |-> None]}
    \cup {[meta |-> Dict(m)] : m \in MetaMaps}
    \cup {[meta |-> Obj(m)] : m \in MetaMaps}

SigLists ==
    {List(<<Str("abc123")>>), List(<<>>), List(<<SigObject>>), Str("abc123"), None}

TxOpts ==
       {Empty, [transaction |-> None], [transaction |-> Dict(Empty)],
        [transaction |-> Obj(Empty)]}
    \cup {[transaction |-> Dict([signatures |-> l])] : l \in SigLists}
    \cup {[transaction |-> Obj([signatures |-> l])] : l \in SigLists}

SlotOpts == {Empty, [slot |-> I(100)]}

EnvelopeMaps == {sl @@ m @@ x : sl \in SlotOpts, m \in MetaOpts, x \in TxOpts}

\* Values in the place of an envelope that are no envelope
NoEnvelopes == {None, List(<<>>), Str(""), Zero, Dict(Empty), List(<<One>>), Str("pending")}

Envelopes ==
       {Dict(e) : e \in EnvelopeMaps}
    \cup {Obj(e) : e \in EnvelopeMaps}
    \cup NoEnvelopes

\* The envelopes tried under the less usual response shapes
FewEnvelopes ==
       {Dict(sl @@ m @@ x) : sl \in SlotOpts,
            m \in {Empty, [meta |-> Dict([fee |-> I(5000), err |-> None])]},
            x \in {Empty, [transaction |-> Dict([signatures |-> List(<<Str("abc123")>>)])]}}
    \cup NoEnvelopes

TxResponses ==
       {Obj([value |-> v]) : v \in Envelopes}
    \cup {Dict([result |-> v]) : v \in Envelopes}
    \cup {Dict([value |-> v]) : v \in FewEnvelopes}
    \cup {Dict([result |-> None, value |-> v]) : v \in FewEnvelopes}
    \cup {Dict([result |-> Dict([value |-> v])]) : v \in FewEnvelopes}
    \cup {None, List(<<>>), Str("error"), Obj(Empty)}

Bytes(bs) == [t |-> "bytes", bytes |-> bs]

ByteSeeds == {0, 1, 127, 128, 255}

\* Keypair buffers: byte i is seed + i * stride (mod 256); stride 0 gives the
\* constant buffers, the all-zero one among them.
KeypairBuffers ==
    {Bytes([i \in 1..KEYPAIR_LEN |-> (b + (i * k)) % 256]) : b \in ByteSeeds, k \in 0..MaxStride}

\* context.args of a command that takes an address
AddressArgs == {<<>>, <<"str_valid">>, <<"str_invalid">>, <<"str_valid", "extra">>}

\* context.args of /tx
SignatureArgs == {<<>>, <<"abc123">>, <<"abc123", "extra">>}

(***************************************************************************)
(* bot.py: the command handlers, one action per step of a handler.  A      *)
(* handler is cut where it calls into solana_utils (a blocking network     *)
(* call); the steps of one invocation run in program order.                *)
(***************************************************************************)
Init ==
    /\ pc = "idle"
    /\ cmd = ""
    /\ args = <<>>
    /\ replies = <<>>
    /\ utilCalls = 0
    /\ rpcLog = <<>>
    /\ resp = None
    /\ sigx = None
    /\ conf = "none"
    /\ ret = None
    /\ escaped = FALSE

\* The reply a handler sends and its end; an exception instead of a reply
\* ends the handler without one.
Finish(r) ==
    /\ pc' = "done"
    /\ IF IsRaise(r)
       THEN replies' = replies /\ escaped' = TRUE
       ELSE replies' = Append(replies, r) /\ escaped' = escaped

\* bot.py lines 18-21 and 115-126: /start and /help
Info(c) ==
    /\ pc = "idle"
    /\ c \in {"start", "help"}
    /\ cmd' = c
    /\ Finish(Reply("info", Str(c)))
    /\ UNCHANGED <<args, utilCalls, rpcLog, resp, sigx, conf, ret>>

\* bot.py lines 25-28, 38-42, 64-68: the argument check of /balance,
\* /airdrop and /tx, and the progress message of the latter two.
Command(c, a) ==
    /\ pc = "idle"
    /\ cmd' = c
    /\ args' = a
    /\ IF Len(a) = 0
       THEN Finish(Reply("usage", Str(c)))
       ELSE /\ pc' = c
            /\ replies' = IF c = "balance" THEN replies
                          ELSE Append(replies, Reply("progress", Str(c)))
            /\ escaped' = escaped
    /\ UNCHANGED <<utilCalls, rpcLog, resp, sigx, conf, ret>>

\* bot.py lines 54 and 99: /price and /generate start with a progress message.
Start(c) ==
    /\ pc = "idle"
    /\ c \in {"price", "generate"}
    /\ cmd' = c
    /\ pc' = c
    /\ replies' = Append(replies, Reply("progress", Str(c)))
    /\ UNCHANGED <<args, utilCalls, rpcLog, resp, sigx, conf, ret, escaped>>

\* bot.py line 29: sol = get_balance(wallet)
BalanceCall ==
    /\ pc = "balance"
    /\ utilCalls' = utilCalls + 1
    /\ \/ /\ IsRaise(_to_pubkey(args[1]))
          /\ ret' = get_balance(args[1], None)
          /\ UNCHANGED <<rpcLog, resp>>
       \/ /\ ~IsRaise(_to_pubkey(args[1]))
          /\ \E out \in BalanceResponses \cup Exceptions :
                /\ resp' = out
                /\ ret' = get_balance(args[1], out)
          /\ rpcLog' = Append(rpcLog, "get_balance")
    /\ pc' = "balance_reply"
    /\ UNCHANGED <<cmd, args, replies, sigx, conf, escaped>>

\* bot.py lines 30-33
BalanceReply ==
    /\ pc = "balance_reply"
    /\ Finish(IF IsRaise(ret) THEN ret
              ELSE IF ~IsNone(ret) THEN Reply("result", ret)
              ELSE Reply("failure", None))
    /\ UNCHANGED <<cmd, args, utilCalls, rpcLog, resp, sigx, conf, ret>>

\* bot.py line 43 up to solana_utils.py line 73: the request and the
\* extraction of the signature.
AirdropRequest ==
    /\ pc = "airdrop"
    /\ utilCalls' = utilCalls + 1
    /\ \/ /\ IsRaise(_to_pubkey(args[1]))
          /\ ret' = AirdropReturn(None, AirdropRequestBody(args[1], None))
          /\ pc' = "airdrop_reply"
          /\ UNCHANGED <<rpcLog, resp, sigx>>
       \/ /\ ~IsRaise(_to_pubkey(args[1]))
          /\ rpcLog' = Append(rpcLog, "request_airdrop")
          /\ \E out \in AirdropResponses \cup Exceptions :
                LET s == AirdropRequestBody(args[1], out) IN
                /\ resp' = out
                /\ IF ~IsRaise(s) /\ Truthy(s)
                   THEN sigx' = s /\ pc' = "airdrop_confirm" /\ ret' = ret
                   ELSE /\ sigx' = (IF IsRaise(s) THEN None ELSE s)
                        /\ pc' = "airdrop_reply"
                        /\ ret' = AirdropReturn(s, IF IsRaise(s) THEN s ELSE None)
    /\ UNCHANGED <<cmd, args, replies, conf, escaped>>

\* solana_utils.py lines 73-80: confirm_transaction and the return
AirdropConfirm ==
    /\ pc = "airdrop_confirm"
    /\ rpcLog' = Append(rpcLog, "confirm_transaction")
    /\ \E c \in {"ok", "raised"} :
          /\ conf' = c
          /\ ret' = AirdropReturn(sigx,
                       TryConfirm(IF c = "raised" THEN Raise("Exception") ELSE None))
    /\ pc' = "airdrop_reply"
    /\ UNCHANGED <<cmd, args, replies, utilCalls, resp, sigx, escaped>>

\* bot.py lines 44-49
AirdropReply ==
    /\ pc = "airdrop_reply"
    /\ Finish(AirdropMessage(ret))
    /\ UNCHANGED <<cmd, args, utilCalls, rpcLog, resp, sigx, conf, ret>>

\* bot.py line 69: info = get_transaction(sig)
TxCall ==
    /\ pc = "tx"
    /\ utilCalls' = utilCalls + 1
    /\ rpcLog' = Append(rpcLog, "get_transaction")
    /\ \E out \in TxResponses \cup Exceptions :
          /\ resp' = out
          /\ ret' = get_transaction(out)
    /\ pc' = "tx_reply"
    /\ UNCHANGED <<cmd, args, replies, sigx, conf, escaped>>

\* bot.py lines 70-94
TxReply ==
    /\ pc = "tx_reply"
    /\ Finish(IF IsRaise(ret) THEN ret
              ELSE IF ~Truthy(ret) THEN Reply("failure", None)
              ELSE LET lines == TxLines(ret) IN
                   IF IsRaise(lines) THEN lines ELSE Reply("result", lines))
    /\ UNCHANGED <<cmd, args, utilCalls, rpcLog, resp, sigx, conf, ret>>

\* bot.py line 55: p = get_sol_price("usd")
PriceCall ==
    /\ pc = "price"
    /\ utilCalls' = utilCalls + 1
    /\ rpcLog' = Append(rpcLog, "coingecko")
    /\ \E out \in PriceBodies \cup Exceptions :
          /\ resp' = out
          /\ ret' = get_sol_price("usd", out)
    /\ pc' = "price_reply"
    /\ UNCHANGED <<cmd, args, replies, sigx, conf, escaped>>

\* bot.py lines 56-59
PriceReply ==
    /\ pc = "price_reply"
    /\ Finish(IF IsRaise(ret) THEN ret
              ELSE IF ~IsNone(ret) THEN Reply("result", ret)
              ELSE Reply("failure", None))
    /\ UNCHANGED <<cmd, args, utilCalls, rpcLog, resp, sigx, conf, ret>>

\* bot.py line 100: info = generate_wallet()
GenerateCall ==
    /\ pc = "generate"
    /\ utilCalls' = utilCalls + 1
    /\ \E out \in KeypairBuffers \cup {Raise("ImportError")} :
          /\ resp' = out
          /\ ret' = generate_wallet(out)
    /\ pc' = "generate_reply"
    /\ UNCHANGED <<cmd, args, replies, rpcLog, sigx, conf, escaped>>

\* bot.py lines 101-111
GenerateReply ==
    /\ pc = "generate_reply"
    /\ Finish(IF IsRaise(ret) THEN ret
              ELSE IF ~Truthy(ret) THEN Reply("failure", None)
              ELSE Reply("result", List(<<DictGet(ret, "address"),
                                          DictGet(ret, "secret_b64")>>)))
    /\ UNCHANGED <<cmd, args, utilCalls, rpcLog, resp, sigx, conf, ret>>

\* bot.py line 139: run_polling takes the next update; nothing of the
\* finished invocation is kept.
NextUpdate ==
    /\ pc = "done"
    /\ pc' = "idle"
    /\ cmd' = ""
    /\ args' = <<>>
    /\ replies' = <<>>
    /\ utilCalls' = 0
    /\ rpcLog' = <<>>
    /\ resp' = None
    /\ sigx' = None
    /\ conf' = "none"
    /\ ret' = None
    /\ escaped' = FALSE

Next ==
    \/ \E c \in {"start", "help"} : Info(c)
    \/ \E c \in {"balance", "airdrop"}, a \in AddressArgs : Command(c, a)
    \/ \E a \in SignatureArgs : Command("tx", a)
    \/ \E c \in {"price", "generate"} : Start(c)
    \/ BalanceCall
    \/ BalanceReply
    \/ AirdropRequest
    \/ AirdropConfirm
    \/ AirdropReply
    \/ TxCall
    \/ TxReply
    \/ PriceCall
    \/ PriceReply
    \/ GenerateCall
    \/ GenerateReply
    \/ NextUpdate

Spec == Init /\ [][Next]_vars

(***************************************************************************)
(* Properties                                                              *)
(***************************************************************************)
\* client.* was called and returned a response
Returned(rpc) == rpcLog # <<>> /\ rpcLog[1] = rpc /\ ~IsRaise(resp)

\* The balance n lamports make: n / 10^9, not negative.
IsSolOf(v, n) == v.t = "float" /\ v.num = n.limbs /\ v.scale = 9 /\ v.fneg = n.neg

Lamports_C1 == {Zero, One, Billion, TwoAndAHalfBillion, U64Max}

\* C1: get_balance gives the balance of the same N lamports for the response
\* object exposing value = N and for the mapping {result: {value: N}}, for
\* N = 0, 1, 10^9, 2.5 * 10^9 and 2^64 - 1; N = 0 is a balance, not a failure.
C1_SameLamportsBothShapes ==
    \A n \in Lamports_C1 :
        (pc = "balance_reply" /\ Returned("get_balance")
           /\ resp \in {Obj([value |-> n]), Dict([result |-> Dict([value |-> n])])})
        => IsSolOf(ret, n)

C1_Witness ==
    /\ pc = "balance_reply"
    /\ resp = Dict([result |-> Dict([value |-> Zero])])
    /\ IsSolOf(ret, Zero)

\* C3: get_balance returns None for {}, for {result: {}} and for every
\* response whose extracted lamport value is a negative number; it never
\* returns a negative balance.
C3_MalformedOrNegativeIsNone ==
    (pc = "balance_reply" /\ Returned("get_balance"))
    => /\ resp \in {Dict(Empty), Dict([result |-> Dict(Empty)])} => IsNone(ret)
       /\ LET l == ExtractLamports(resp) IN (l.t = "int" /\ l.neg) => IsNone(ret)
       /\ ret.t = "float" => ~ret.fneg

Scenario_C2 ==
    Dict([slot        |-> I(100),
          meta        |-> Dict([fee |-> I(5000), err |-> None]),
          transaction |-> Dict([signatures |-> List(<<Str("abc123")>>)])])

ScenarioRecord_C2 ==
    Dict([slot |-> I(100), fee |-> I(5000), err |-> None,
          signatures |-> List(<<Str("abc123")>>),
          preBalances |-> None, postBalances |-> None])

AllNoneRecord ==
    Dict([slot |-> None, fee |-> None, err |-> None, signatures |-> None,
          preBalances |-> None, postBalances |-> None])

\* C2 as stated: the mapping {result: {value: E}} with the scenario's
\* envelope E gives the scenario's record (the envelope is found under
\* "result" and then "value").
C2_NestedEnvelopeRead ==
    (pc = "tx_reply" /\ resp = Dict([result |-> Dict([value |-> Scenario_C2])]))
    => ret = ScenarioRecord_C2

\* C2 amended: the envelope of a mapping response is the value under
\* "result" when that is non-empty, else the value under "value"; the two keys
\* are alternatives, not a path.  The scenario's envelope E gives the
\* scenario's record as {result: E}, {value: E} and {result: null, value: E};
\* as {result: {value: E}} the envelope is {value: E}, which has none of the
\* fields, and the record has none in every field.
C2_ResultOrValueEnvelope ==
    (pc = "tx_reply" /\ Returned("get_transaction"))
    => /\ resp \in {Dict([result |-> Scenario_C2]), Dict([value |-> Scenario_C2]),
                    Dict([result |-> None, value |-> Scenario_C2])}
          => ret = ScenarioRecord_C2
       /\ resp = Dict([result |-> Dict([value |-> Scenario_C2])]) => ret = AllNoneRecord

C2_Witness ==
    /\ pc = "tx_reply"
    /\ resp = Dict([result |-> Scenario_C2])
    /\ ret = ScenarioRecord_C2

\* C4: once client.get_transaction returned, get_transaction returns None
\* exactly when the envelope is absent or empty; an envelope that is there
\* and carries neither meta nor transaction gives a record whose signatures,
\* err, fee, preBalances and postBalances are all None.
C4_NotFoundOnlyWithoutEnvelope ==
    (pc = "tx_reply" /\ Returned("get_transaction"))
    => LET value == ResolveValue(resp) IN
       /\ IsNone(ret) <=> ~Truthy(value)
       /\ (Truthy(value) /\ IsNone(Field(value, "meta"))
              /\ IsNone(Field(value, "transaction")))
          => /\ ret.t = "dict"
             /\ \A k \in {"signatures", "err", "fee", "preBalances", "postBalances"} :
                    IsNone(ret.d[k])

C4_Witness ==
    /\ pc = "tx_reply"
    /\ resp = Obj([value |-> Dict([slot |-> I(100)])])
    /\ ret.t = "dict"
    /\ IsNone(ret.d["signatures"])
    /\ ret.d["slot"] = I(100)

\* C5: no solana_utils function lets an exception out: get_balance and
\* get_sol_price return a number or None, get_transaction and
\* generate_wallet a record or None, request_airdrop a record with success,
\* signature and message.
C5_NoExceptionEscapes ==
    /\ ~IsRaise(ret)
    /\ pc \in {"balance_reply", "price_reply"} => ret.t \in {"float", "none"}
    /\ pc \in {"tx_reply", "generate_reply"} => ret.t \in {"dict", "none"}
    /\ pc = "airdrop_reply"
       => ret.t = "dict" /\ DOMAIN ret.d = {"success", "signature", "message"}

\* A probe that raises: the value extracted is a str, the division raises.
C5_Witness ==
    /\ pc = "balance_reply"
    /\ resp = Obj([value |-> Str("1")])
    /\ IsNone(ret)

\* The values the probes of request_airdrop look at
ProbedSignatures(r) ==
    IF HasAttr(r, "value") THEN {r.attrs["value"]}
    ELSE IF r.t = "dict" THEN {DictGet(r, "result"), DictGet(r, "signature")}
    ELSE {}

NoSignatureIn(r) == \A v \in ProbedSignatures(r) : ~Truthy(v)

\* C6 as stated: the airdrop call returned and no probe gives a non-empty
\* signature: request_airdrop returns success = true with signature = None;
\* success = false only when the call or the address conversion raised.
C6_AbsentSignatureIsNone ==
    (pc = "airdrop_reply")
    => /\ (Returned("request_airdrop") /\ NoSignatureIn(resp))
          => ret.d["success"] = Bool(TRUE) /\ IsNone(ret.d["signature"])
       /\ ret.d["success"] = Bool(FALSE)
          => IsRaise(resp) \/ IsRaise(_to_pubkey(args[1]))

\* C6 amended: the airdrop call returned and no probe gives a non-empty
\* signature: request_airdrop returns success = true with a signature that
\* is None or empty, namely the empty value the probes found (e.g. ""),
\* and confirm_transaction is not attempted; success = false only when the
\* call or the address conversion raised.
C6_AbsentSignatureIsSuccess ==
    (pc = "airdrop_reply")
    => /\ (Returned("request_airdrop") /\ NoSignatureIn(resp))
          => /\ ret.d["success"] = Bool(TRUE)
             /\ ~Truthy(ret.d["signature"])
             /\ ret.d["signature"] \in ProbedSignatures(resp) \cup {None}
             /\ conf = "none"
       /\ ret.d["success"] = Bool(FALSE)
          => IsRaise(resp) \/ IsRaise(_to_pubkey(args[1]))

C6_Witness ==
    /\ pc = "airdrop_reply"
    /\ resp = Obj([value |-> Str("")])
    /\ ret.d["success"] = Bool(TRUE)
    /\ ret.d["signature"] = Str("")

\* The fields of a meta, mapping or object
MetaFields(m) == IF m.t = "dict" THEN m.d ELSE IF m.t = "obj" THEN m.attrs ELSE Empty

\* C7: whether meta is a mapping or an object, a balance list present under
\* either spelling (preBalances or pre_balances, postBalances or
\* post_balances) is in the record as preBalances, postBalances.
C7_EitherSpellingBothShapes ==
    (pc = "tx_reply" /\ Returned("get_transaction") /\ Truthy(ResolveValue(resp)))
    => LET f == MetaFields(Field(ResolveValue(resp), "meta")) IN
       /\ {"preBalances", "pre_balances"} \cap DOMAIN f # {}
          => ret.d["preBalances"]
                \in {f[k] : k \in {"preBalances", "pre_balances"} \cap DOMAIN f}
       /\ {"postBalances", "post_balances"} \cap DOMAIN f # {}
          => ret.d["postBalances"]
                \in {f[k] : k \in {"postBalances", "post_balances"} \cap DOMAIN f}

CharIndex(alphabet, c) == (CHOOSE i \in DOMAIN alphabet : alphabet[i] = c) - 1

\* base64.b64decode of groups of four characters with "=" padding
RECURSIVE B64Decode(_)
B64Decode(cs) ==
    IF Len(cs) = 0 THEN <<>>
    ELSE LET a == CharIndex(B64Alphabet, cs[1])
             b == CharIndex(B64Alphabet, cs[2])
         IN  IF cs[3] = "="
             THEN << (a * 4) + (b \div 16) >>
             ELSE LET c == CharIndex(B64Alphabet, cs[3]) IN
                  IF cs[4] = "="
                  THEN << (a * 4) + (b \div 16), ((b % 16) * 16) + (c \div 4) >>
                  ELSE << (a * 4) + (b \div 16), ((b % 16) * 16) + (c \div 4),
                          ((c % 4) * 64) + CharIndex(B64Alphabet, cs[4]) >>
                       \o B64Decode(SubSeq(cs, 5, Len(cs)))

\* bytes.fromhex
RECURSIVE HexDecode(_)
HexDecode(cs) ==
    IF Len(cs) = 0 THEN <<>>
    ELSE << (CharIndex(HexAlphabet, cs[1]) * 16) + CharIndex(HexAlphabet, cs[2]) >>
         \o HexDecode(SubSeq(cs, 3, Len(cs)))

\* C8: for every keypair buffer, the base64 secret and the hex secret of
\* generate_wallet both decode to exactly the 64 bytes of the keypair.
C8_SecretsRoundTrip ==
    (pc = "generate_reply" /\ resp.t = "bytes")
    => /\ ret.t = "dict"
       /\ B64Decode(ret.d["secret_b64"].chars) = resp.bytes
       /\ HexDecode(ret.d["secret_hex"].chars) = resp.bytes
       /\ Len(resp.bytes) = KEYPAIR_LEN

C8_Witness ==
    /\ pc = "generate_reply"
    /\ resp.t = "bytes"
    /\ resp.bytes[1] = 128 /\ resp.bytes[2] = 129
    /\ ret.t = "dict"
    /\ Len(ret.d["secret_b64"].chars) = 88
    /\ Len(ret.d["secret_hex"].chars) = 128

Confirms == {i \in DOMAIN rpcLog : rpcLog[i] = "confirm_transaction"}

\* C9: confirm_transaction is attempted at most once a call, only after
\* request_airdrop returned and only with a non-empty extracted signature;
\* whether it succeeds or raises, request_airdrop returns success = true
\* with the extracted signature.
C9_ConfirmAfterRequestOnce ==
    /\ Cardinality(Confirms) <= 1
    /\ \A i \in Confirms :
          /\ i = 2 /\ rpcLog[1] = "request_airdrop"
          /\ ~IsRaise(resp)
          /\ Truthy(sigx) /\ sigx \in ProbedSignatures(resp)
    /\ (conf # "none") = (Confirms # {})
    /\ (cmd = "airdrop" /\ pc \in {"airdrop_reply", "done"} /\ conf = "none"
          /\ Returned("request_airdrop"))
       => ~Truthy(sigx)
    /\ (pc = "airdrop_reply" /\ conf # "none")
       => ret.d["success"] = Bool(TRUE) /\ ret.d["signature"] = sigx

C9_Witness ==
    /\ pc = "airdrop_reply"
    /\ conf = "raised"
    /\ rpcLog = <<"request_airdrop", "confirm_transaction">>
    /\ ret.d["success"] = Bool(TRUE)
    /\ ret.d["signature"] = Str("5sig")

FinalKinds == {"result", "failure"}

\* C10: /balance, /airdrop and /tx without arguments send the usage message
\* and nothing else and call nothing; with an argument they call
\* solana_utils once and end with exactly one final reply, a result or a
\* failure (after one progress message for /airdrop and /tx), whatever
\* the outcome upstream.  The progress message precedes the call.
C10_OneCallOneFinalReply ==
    /\ (pc \in {"airdrop", "tx"})
       => utilCalls = 0 /\ Len(replies) = 1 /\ replies[1].kind = "progress"
    /\ (pc = "done" /\ cmd \in {"balance", "airdrop", "tx"})
       => IF args = <<>>
          THEN /\ Len(replies) = 1 /\ replies[1].kind = "usage"
               /\ utilCalls = 0 /\ rpcLog = <<>>
          ELSE /\ utilCalls = 1
               /\ ~escaped
               /\ Len(replies) = (IF cmd = "balance" THEN 1 ELSE 2)
               /\ replies[Len(replies)].kind \in FinalKinds
               /\ cmd # "balance" => replies[1].kind = "progress"

====
